---- MODULE Spec2Model ----
(***************************************************************************)
(* cassandra-migration: the reconciliation and sequential-execution engine *)
(* of src/index.js (class Shift, and the legacy exported function) with    *)
(* the CQL migration unit of src/unnamed/part_000.                         *)
(*                                                                         *)
(* A file name is a tuple of one-character strings, so that the regular    *)
(* expression, parseInt, prettyName and the byte order of the directory    *)
(* listing are computed on the characters as the code computes them.       *)
(* The ledger is the migration_history table: a set of rows with primary   *)
(* key version.  installed_on and execution_time are wall-clock values     *)
(* that no decision of the engine reads; the rows of the model leave them  *)
(* out.                                                                    *)
(***************************************************************************)
EXTENDS Integers, Sequences, FiniteSets, TLC

(* ------------------------------------------------------------------ *)
(* Bounds of the model                                                 *)
(* ------------------------------------------------------------------ *)

\* the number of files in the migration directory
MaxFiles == 3

\* the number of migrate invocations one behaviour makes
MaxRuns == 3

(* ------------------------------------------------------------------ *)
(* Characters                                                          *)
(* ------------------------------------------------------------------ *)

\* the character's code unit, which is what the regular expression's ranges,
\* parseInt and the ordering of the directory listing read
Code(ch) ==
  CASE ch = " " -> 32  [] ch = "." -> 46
    [] ch = "0" -> 48  [] ch = "1" -> 49  [] ch = "2" -> 50  [] ch = "3" -> 51
    [] ch = "A" -> 65  [] ch = "B" -> 66  [] ch = "C" -> 67  [] ch = "X" -> 88
    [] ch = "_" -> 95
    [] ch = "a" -> 97  [] ch = "b" -> 98  [] ch = "c" -> 99  [] ch = "d" -> 100
    [] ch = "j" -> 106 [] ch = "l" -> 108 [] ch = "m" -> 109 [] ch = "q" -> 113
    [] ch = "s" -> 115 [] ch = "x" -> 120

\* [0-9]
IsDigit(ch) == Code(ch) >= 48 /\ Code(ch) <= 57

\* [A-z0-9_]: the range A-z is 65..122 and holds "_" (95) already
IsNameChar(ch) == (Code(ch) >= 65 /\ Code(ch) <= 122) \/ IsDigit(ch) \/ ch = "_"

\* String.prototype.toUpperCase on one character
toUpperCase(ch) ==
  CASE ch = "a" -> "A" [] ch = "b" -> "B" [] ch = "c" -> "C" [] ch = "d" -> "D"
    [] ch = "j" -> "J" [] ch = "l" -> "L" [] ch = "m" -> "M" [] ch = "q" -> "Q"
    [] ch = "s" -> "S" [] ch = "x" -> "X" [] OTHER -> ch

(* ------------------------------------------------------------------ *)
(* The migration directory                                             *)
(* ------------------------------------------------------------------ *)

F_01_a_cql == <<"0", "1", "_", "_", "a", ".", "c", "q", "l">>
F_1_a_cql  == <<"1", "_", "_", "a", ".", "c", "q", "l">>
F_10_c_cql == <<"1", "0", "_", "_", "c", ".", "c", "q", "l">>
F_2_b_x_js == <<"2", "_", "_", "b", "_", "x", ".", "j", "s">>
F_3_cql    == <<"3", "_", "_", ".", "c", "q", "l">>
F_x_md     == <<"x", ".", "m", "d">>

\* the files a directory of the model is drawn from
FileUniverse == {F_01_a_cql, F_1_a_cql, F_10_c_cql, F_2_b_x_js, F_3_cql, F_x_md}

\* what BaseMigration.loadFile reads from each file: 01__a.cql and 1__a.cql
\* hold the same text
FileContent(f) ==
  CASE f = F_01_a_cql -> "create a"
    [] f = F_1_a_cql  -> "create a"
    [] f = F_10_c_cql -> "create c"
    [] f = F_2_b_x_js -> "module b x"
    [] OTHER          -> "text"

\* the checksum package's digest of a text: equal texts, equal digests
checksum(text) ==
  CASE text = "create a"   -> "h_a"
    [] text = "create c"   -> "h_c"
    [] text = "module b x" -> "h_b"
    [] OTHER               -> "h_t"

\* strcmp(a, b) < 0: the first differing code unit decides, a proper prefix is smaller
RECURSIVE StrLess(_, _)
StrLess(a, b) ==
  IF a = <<>> THEN b # <<>>
  ELSE IF b = <<>> THEN FALSE
  ELSE IF Code(Head(a)) # Code(Head(b)) THEN Code(Head(a)) < Code(Head(b))
  ELSE StrLess(Tail(a), Tail(b))

\* fs.readdirSync(dir): the entries of the directory in the byte order of their names
RECURSIVE readdirSync(_)
readdirSync(d) ==
  IF d = {} THEN <<>>
  ELSE LET first == CHOOSE f \in d : \A g \in d \ {f} : StrLess(f, g)
       IN  <<first>> \o readdirSync(d \ {first})

(* ------------------------------------------------------------------ *)
(* Loading the definitions                                             *)
(* ------------------------------------------------------------------ *)

\* the length of the longest prefix of s made of digits: the group ([0-9]+)
RECURSIVE DigitPrefixLen(_)
DigitPrefixLen(s) ==
  IF s # <<>> /\ IsDigit(Head(s)) THEN 1 + DigitPrefixLen(Tail(s)) ELSE 0

\* the length of the longest prefix of s made of name characters: the group ([A-z0-9_]*)
RECURSIVE NamePrefixLen(_)
NamePrefixLen(s) ==
  IF s # <<>> /\ IsNameChar(Head(s)) THEN 1 + NamePrefixLen(Tail(s)) ELSE 0

NoMatch == [matched |-> FALSE]

\* filename.match(/^([0-9]+)__([A-z0-9_]*)\.(js|cql)$/): the three groups, or no match.
\* "." is no name character, so the name group ends at the first "."
match(filename) ==
  LET d    == DigitPrefixLen(filename)
      rest == SubSeq(filename, d + 1, Len(filename))
  IN  IF d = 0 \/ Len(rest) < 2 \/ rest[1] # "_" \/ rest[2] # "_" THEN NoMatch
      ELSE LET body == SubSeq(rest, 3, Len(rest))
               n    == NamePrefixLen(body)
               ext  == SubSeq(body, n + 1, Len(body))
           IN  IF ext = <<".", "j", "s">> \/ ext = <<".", "c", "q", "l">>
               THEN [matched |-> TRUE,
                     g1 |-> SubSeq(filename, 1, d),
                     g2 |-> SubSeq(body, 1, n),
                     g3 |-> Tail(ext)]
               ELSE NoMatch

\* parseInt of a string of decimal digits
RECURSIVE parseInt(_)
parseInt(digits) ==
  IF digits = <<>> THEN 0
  ELSE 10 * parseInt(SubSeq(digits, 1, Len(digits) - 1))
       + (Code(digits[Len(digits)]) - 48)

\* name.replace(/_/g, " ")
spaced(name) == [k \in 1..Len(name) |-> IF name[k] = "_" THEN " " ELSE name[k]]

\* prettyName: underscores to spaces, first character upper-cased.  Defined for a
\* non-empty name; on the empty name spaced[0] is undefined and the call throws
prettyName(name) == <<toUpperCase(spaced(name)[1])>> \o Tail(spaced(name))

\* BaseMigration's constructor: the unit carries its type and the opts it was given
BaseMigration(type, opts) ==
  [path |-> opts.path, version |-> opts.version, name |-> opts.name,
   type |-> type, checksum |-> "unloaded"]

\* new CqlMigration(opts) followed by load(): the checksum of the file's text
CqlMigration(opts) ==
  [BaseMigration("CQL", opts) EXCEPT !.checksum = checksum(FileContent(opts.path))]

\* new JsMigration(opts) followed by load(): the script unit, with its own type tag
JsMigration(opts) ==
  [BaseMigration("JS", opts) EXCEPT !.checksum = checksum(FileContent(opts.path))]

\* loadAvailableMigration (Shift): [kind |-> "skip"] for a name that does not match,
\* [kind |-> "throw"] when prettyName or load() throws, else the loaded unit.
\* ioFails: whether reading this file fails
loadAvailableMigration(filename, ioFails) ==
  LET mt == match(filename)
  IN  IF ~mt.matched THEN [kind |-> "skip"]
      ELSE IF mt.g2 = <<>> THEN [kind |-> "throw", error |-> "TypeError: spaced[0] is undefined"]
      ELSE IF ioFails THEN [kind |-> "throw", error |-> "LoadError"]
      ELSE LET opts == [path |-> filename, version |-> parseInt(mt.g1),
                        name |-> prettyName(mt.g2)]
           IN  [kind |-> "unit",
                unit |-> IF mt.g3 = <<"j", "s">> THEN JsMigration(opts)
                         ELSE CqlMigration(opts)]

\* the loop of loadAvailableMigrations over files[k..], appending to acc
RECURSIVE LoadFrom(_, _, _, _)
LoadFrom(files, k, failAt, acc) ==
  IF k > Len(files) THEN [error |-> "none", migrations |-> acc]
  ELSE LET m == loadAvailableMigration(files[k], k = failAt)
       IN  IF m.kind = "throw" THEN [error |-> m.error, migrations |-> <<>>]
           ELSE IF m.kind = "skip" THEN LoadFrom(files, k + 1, failAt, acc)
           ELSE LoadFrom(files, k + 1, failAt, Append(acc, m.unit))

\* loadAvailableMigrations giving up at the file whose read fails and returning the
\* units loaded before it
loadAvailableMigrationsUpToFailure(d, failAt) ==
  LET files == readdirSync(d)
      full  == LoadFrom(files, 1, failAt, <<>>)
  IN  IF full.error = "LoadError"
      THEN LoadFrom(SubSeq(files, 1, failAt - 1), 1, 0, <<>>)
      ELSE full

\* loadAvailableMigrations(dir): the units in the order of the directory listing.
\* failAt: the position in the listing of the file whose read fails, 0 for none
loadAvailableMigrations(d, failAt) == LoadFrom(readdirSync(d), 1, failAt, <<>>)

(* ------------------------------------------------------------------ *)
(* The ledger and the reconciliation                                   *)
(* ------------------------------------------------------------------ *)

\* the row executeMigration would insert if success were always true
LedgerRowSucceeded(m, ok) ==
  [version |-> m.version, name |-> m.name, type |-> m.type,
   checksum |-> m.checksum, success |-> TRUE]

\* the row executeMigration inserts for a unit (installed_on, execution_time left out)
LedgerRow(m, ok) ==
  [version |-> m.version, name |-> m.name, type |-> m.type,
   checksum |-> m.checksum, success |-> ok]

\* INSERT INTO migration_history: version is the PRIMARY KEY and a CQL INSERT
\* carries no IF NOT EXISTS, so a row of the same version is replaced
Insert(table, row) == {x \in table : x.version # row.version} \cup {row}

\* rows.sort((r1, r2) => r1.version - r2.version)
RECURSIVE SortByVersion(_)
SortByVersion(rows) ==
  IF rows = {} THEN <<>>
  ELSE LET first == CHOOSE x \in rows : \A y \in rows : x.version <= y.version
       IN  <<first>> \o SortByVersion(rows \ {first})

\* getAppliedMigrations (Shift): every row of the table, by ascending version
getAppliedMigrations(table) == SortByVersion(table)

\* the loop of checkAppliedMigrations with the checksum comparison left out
RECURSIVE CheckFromNoChecksum(_, _, _)
CheckFromNoChecksum(applied, migrations, k) ==
  IF k > Len(applied) THEN "ok"
  ELSE IF k > Len(migrations) THEN CheckFromNoChecksum(applied, migrations, k + 1)
  ELSE IF applied[k].version # migrations[k].version THEN "VersionMismatch"
  ELSE IF applied[k].name # migrations[k].name THEN "NameMismatch"
  ELSE CheckFromNoChecksum(applied, migrations, k + 1)

\* the loop of checkAppliedMigrations testing the name before the version
RECURSIVE CheckFromNameFirst(_, _, _)
CheckFromNameFirst(applied, migrations, k) ==
  IF k > Len(applied) THEN "ok"
  ELSE IF k > Len(migrations) THEN CheckFromNameFirst(applied, migrations, k + 1)
  ELSE IF applied[k].name # migrations[k].name THEN "NameMismatch"
  ELSE IF applied[k].version # migrations[k].version THEN "VersionMismatch"
  ELSE IF applied[k].checksum # migrations[k].checksum THEN "ChecksumMismatch"
  ELSE CheckFromNameFirst(applied, migrations, k + 1)

\* the loop of checkAppliedMigrations (Shift) from index k (1-based)
RECURSIVE CheckFrom(_, _, _)
CheckFrom(applied, migrations, k) ==
  IF k > Len(applied) THEN "ok"
  ELSE IF k > Len(migrations) THEN CheckFrom(applied, migrations, k + 1)
  ELSE IF applied[k].version # migrations[k].version THEN "VersionMismatch"
  ELSE IF applied[k].name # migrations[k].name THEN "NameMismatch"
  ELSE IF applied[k].checksum # migrations[k].checksum THEN "ChecksumMismatch"
  ELSE CheckFrom(applied, migrations, k + 1)

\* checkAppliedMigrations testing the first record, appliedMigrations[0], for failure
checkAppliedMigrationsFirstRecord(applied, migrations) ==
  IF Len(applied) = 0 THEN "ok"
  ELSE IF ~applied[1].success THEN "HaltedHistory"
  ELSE CheckFrom(applied, migrations, 1)

\* checkAppliedMigrations (Shift): "ok" when it returns, else the error it throws
checkAppliedMigrations(applied, migrations) ==
  IF Len(applied) = 0 THEN "ok"
  ELSE IF ~applied[Len(applied)].success THEN "HaltedHistory"
  ELSE CheckFrom(applied, migrations, 1)

\* the loop of migrate starting at 0: for (let i = 0; ...)
pendingStartZero(applied) == 0

\* the pending start index of migrate: let i = appliedMigrations.length
pendingStart(applied) == Len(applied)

(* ------------------------------------------------------------------ *)
(* State                                                               *)
(* ------------------------------------------------------------------ *)

\* the Shift instances (runners) that exist; Spec drives the first one only
Runners == {1, 2}

VARIABLES
  dir,                  \* the files of opts.dir
  ledger,               \* the rows of the migration_history table
  opts,                 \* this.opts: the ensureKeyspace and useKeyspace flags
  pc,                   \* per runner: the await its invocation of migrate is at
  appliedMigrations,    \* per runner: the local of migrate
  availableMigrations,  \* per runner: the local of migrate
  i,                    \* per runner: the loop index of migrate (0-based)
  success,              \* per runner: the local of executeMigration
  cachedError,          \* per runner: the local of executeMigration
  result,               \* per runner: how the invocation's promise settled
  events,               \* per runner: the events emitted by this invocation, in order
  runExec,              \* per runner: the units whose execute this invocation awaited
  runWrites,            \* per runner: the rows this invocation inserted, in order
  notified,             \* per runner: the payloads of its appliedMigration events, in order
  executed,             \* the paths of the units whose execute was ever invoked
  prevResult,           \* per runner: how its previous invocation settled
  failedBefore,         \* a success=false row was inserted by an earlier invocation
  runs                  \* the number of invocations started

vars ==
  <<dir, ledger, opts, pc, appliedMigrations, availableMigrations, i, success,
    cachedError, result, events, runExec, runWrites, notified, executed, prevResult,
    failedBefore, runs>>

\* an error value: its kind and, for an execution error, the unit that raised it
Err(kind, path) == [kind |-> kind, unit |-> path]
Pending  == Err("pending", <<>>)
Resolved == Err("ok", <<>>)

\* the directories of the model
Directories == {d \in SUBSET FileUniverse : Cardinality(d) <= MaxFiles}

OptsSet == [ensureKeyspace : BOOLEAN, useKeyspace : BOOLEAN]

InitRun ==
  /\ pc = [r \in Runners |-> "idle"]
  /\ appliedMigrations = [r \in Runners |-> <<>>]
  /\ availableMigrations = [r \in Runners |-> <<>>]
  /\ i = [r \in Runners |-> 0]
  /\ success = [r \in Runners |-> FALSE]
  /\ cachedError = [r \in Runners |-> Pending]
  /\ result = [r \in Runners |-> Pending]
  /\ events = [r \in Runners |-> <<>>]
  /\ runExec = [r \in Runners |-> <<>>]
  /\ runWrites = [r \in Runners |-> <<>>]
  /\ notified = [r \in Runners |-> <<>>]
  /\ executed = {}
  /\ prevResult = [r \in Runners |-> Pending]
  /\ failedBefore = FALSE
  /\ runs = 0

\* a Shift constructed over a migration directory and a cluster whose ledger is empty
Init ==
  /\ dir \in Directories
  /\ ledger = {}
  /\ opts \in OptsSet
  /\ InitRun

(* ------------------------------------------------------------------ *)
(* Shift.migrate: one action per await, with the synchronous code that *)
(* follows it.  A cluster call either resolves or rejects; an emit      *)
(* calls the listeners synchronously and a listener that throws makes   *)
(* emit throw inside migrate.                                           *)
(* ------------------------------------------------------------------ *)

\* the invocation of r settles: rejected with e, or resolved
Settle(r, e) ==
  /\ pc' = [pc EXCEPT ![r] = IF e.kind = "ok" THEN "Done" ELSE "Halted"]
  /\ result' = [result EXCEPT ![r] = e]

\* this.emit(ev) then the await named next: thrown tells whether a listener throws
EmitThen(r, ev, thrown, next) ==
  /\ events' = [events EXCEPT ![r] = Append(@, ev)]
  /\ IF thrown THEN Settle(r, Err("ListenerError", <<>>))
     ELSE pc' = [pc EXCEPT ![r] = next] /\ UNCHANGED result

\* AfterKeyspace selecting the keyspace whether or not opts.useKeyspace is set
AfterKeyspaceAlwaysUse(step) ==
  IF step = "start" /\ opts.ensureKeyspace THEN "ensureKeyspace"
  ELSE IF step \in {"start", "ensureKeyspace"} THEN "useKeyspace"
  ELSE "ensureMigrationTable"

\* the first await after the keyspace steps up to and including step
AfterKeyspace(step) ==
  IF step = "start" /\ opts.ensureKeyspace THEN "ensureKeyspace"
  ELSE IF step \in {"start", "ensureKeyspace"} /\ opts.useKeyspace THEN "useKeyspace"
  ELSE "ensureMigrationTable"

\* migrate() is called on a runner that has no invocation in progress
migrate(r) ==
  /\ pc[r] \in {"idle", "Done", "Halted"}
  /\ runs < MaxRuns
  /\ runs' = runs + 1
  /\ prevResult' = [prevResult EXCEPT ![r] = result[r]]
  /\ failedBefore' = (failedBefore \/ \E k \in 1..Len(runWrites[r]) : ~runWrites[r][k].success)
  /\ pc' = [pc EXCEPT ![r] = AfterKeyspace("start")]
  /\ result' = [result EXCEPT ![r] = Pending]
  /\ appliedMigrations' = [appliedMigrations EXCEPT ![r] = <<>>]
  /\ availableMigrations' = [availableMigrations EXCEPT ![r] = <<>>]
  /\ i' = [i EXCEPT ![r] = 0]
  /\ success' = [success EXCEPT ![r] = FALSE]
  /\ cachedError' = [cachedError EXCEPT ![r] = Pending]
  /\ events' = [events EXCEPT ![r] = <<>>]
  /\ runExec' = [runExec EXCEPT ![r] = <<>>]
  /\ runWrites' = [runWrites EXCEPT ![r] = <<>>]
  /\ notified' = [notified EXCEPT ![r] = <<>>]
  /\ UNCHANGED <<dir, ledger, opts, executed>>

\* await ensureKeyspace(...); this.emit("ensuredKeyspace")
migrate_ensureKeyspace(r) ==
  /\ pc[r] = "ensureKeyspace"
  /\ \E ok \in BOOLEAN, thrown \in BOOLEAN :
       IF ok THEN EmitThen(r, "ensuredKeyspace", thrown, AfterKeyspace("ensureKeyspace"))
       ELSE Settle(r, Err("ClusterError", <<>>)) /\ UNCHANGED events
  /\ UNCHANGED <<dir, ledger, opts, appliedMigrations, availableMigrations, i, success,
                 cachedError, runExec, runWrites, notified, executed, prevResult,
                 failedBefore, runs>>

\* await useKeyspace(...); this.emit("usedKeyspace")
migrate_useKeyspace(r) ==
  /\ pc[r] = "useKeyspace"
  /\ \E ok \in BOOLEAN, thrown \in BOOLEAN :
       IF ok THEN EmitThen(r, "usedKeyspace", thrown, AfterKeyspace("useKeyspace"))
       ELSE Settle(r, Err("ClusterError", <<>>)) /\ UNCHANGED events
  /\ UNCHANGED <<dir, ledger, opts, appliedMigrations, availableMigrations, i, success,
                 cachedError, runExec, runWrites, notified, executed, prevResult,
                 failedBefore, runs>>

\* await ensureMigrationTable(...); this.emit("ensuredMigrationTable")
migrate_ensureMigrationTable(r) ==
  /\ pc[r] = "ensureMigrationTable"
  /\ \E ok \in BOOLEAN, thrown \in BOOLEAN :
       IF ok THEN EmitThen(r, "ensuredMigrationTable", thrown, "getAppliedMigrations")
       ELSE Settle(r, Err("ClusterError", <<>>)) /\ UNCHANGED events
  /\ UNCHANGED <<dir, ledger, opts, appliedMigrations, availableMigrations, i, success,
                 cachedError, runExec, runWrites, notified, executed, prevResult,
                 failedBefore, runs>>

\* let appliedMigrations = await getAppliedMigrations(...)
migrate_getAppliedMigrations(r) ==
  /\ pc[r] = "getAppliedMigrations"
  /\ \E ok \in BOOLEAN :
       IF ok
       THEN /\ appliedMigrations' = [appliedMigrations EXCEPT ![r] = getAppliedMigrations(ledger)]
            /\ pc' = [pc EXCEPT ![r] = "loadAvailableMigrations"]
            /\ UNCHANGED result
       ELSE Settle(r, Err("ClusterError", <<>>)) /\ UNCHANGED appliedMigrations
  /\ UNCHANGED <<dir, ledger, opts, availableMigrations, i, success, cachedError, events,
                 runExec, runWrites, notified, executed, prevResult, failedBefore, runs>>

\* let availableMigrations = await loadAvailableMigrations(this.opts.dir)
migrate_loadAvailableMigrations(r) ==
  /\ pc[r] = "loadAvailableMigrations"
  /\ \E failAt \in 0..Cardinality(dir) :
       LET loaded == loadAvailableMigrations(dir, failAt)
       IN  IF loaded.error = "none"
           THEN /\ availableMigrations' = [availableMigrations EXCEPT ![r] = loaded.migrations]
                /\ pc' = [pc EXCEPT ![r] = "checkAppliedMigrations"]
                /\ UNCHANGED result
           ELSE Settle(r, Err(loaded.error, <<>>)) /\ UNCHANGED availableMigrations
  /\ UNCHANGED <<dir, ledger, opts, appliedMigrations, i, success, cachedError, events,
                 runExec, runWrites, notified, executed, prevResult, failedBefore, runs>>

\* checkAppliedMigrations(appliedMigrations, availableMigrations);
\* this.emit("checkedAppliedMigrations"); let i = appliedMigrations.length
migrate_checkAppliedMigrations(r) ==
  /\ pc[r] = "checkAppliedMigrations"
  /\ LET checked == checkAppliedMigrations(appliedMigrations[r], availableMigrations[r])
     IN  IF checked = "ok"
         THEN /\ \E thrown \in BOOLEAN : EmitThen(r, "checkedAppliedMigrations", thrown, "for")
              /\ i' = [i EXCEPT ![r] = pendingStart(appliedMigrations[r])]
         ELSE Settle(r, Err(checked, <<>>)) /\ UNCHANGED <<events, i>>
  /\ UNCHANGED <<dir, ledger, opts, appliedMigrations, availableMigrations, success,
                 cachedError, runExec, runWrites, notified, executed, prevResult,
                 failedBefore, runs>>

\* the loop condition i < availableMigrations.length: executeMigration is called for
\* availableMigrations[i] and awaits its execute, or the loop ends and migrate resolves
migrate_for(r) ==
  /\ pc[r] = "for"
  /\ IF i[r] < Len(availableMigrations[r])
     THEN pc' = [pc EXCEPT ![r] = "execute"] /\ UNCHANGED result
     ELSE Settle(r, Resolved)
  /\ UNCHANGED <<dir, ledger, opts, appliedMigrations, availableMigrations, i, success,
                 cachedError, events, runExec, runWrites, notified, executed, prevResult,
                 failedBefore, runs>>

\* the payload of appliedMigration carrying the checksum in the place of the type
appliedMigrationChecksum(m) ==
  [version |-> m.version, name |-> m.name, type |-> m.checksum]

\* the payload of this.emit("appliedMigration", { version, name, type })
appliedMigration(m) ==
  [version |-> m.version, name |-> m.name, type |-> m.type]

\* executeMigration: try { await migration.execute(...); success = true }
\* catch(err) { cachedError = err; success = false }, then the INSERT is issued
executeMigration_execute(r) ==
  /\ pc[r] = "execute"
  /\ LET m == availableMigrations[r][i[r] + 1]
     IN  /\ \E ok \in BOOLEAN :
              /\ success' = [success EXCEPT ![r] = ok]
              /\ cachedError' = [cachedError EXCEPT ![r] =
                                   IF ok THEN Pending ELSE Err("ExecutionError", m.path)]
         /\ runExec' = [runExec EXCEPT ![r] = Append(@, m)]
         /\ executed' = executed \cup {m.path}
  /\ pc' = [pc EXCEPT ![r] = "insert"]
  /\ UNCHANGED <<dir, ledger, opts, appliedMigrations, availableMigrations, i, result,
                 events, runWrites, notified, prevResult, failedBefore, runs>>

\* executeMigration: await cassandraClients[0].execute(INSERT ...);
\* if (!success) throw cachedError; back in migrate: this.emit("appliedMigration"), ++i
executeMigration_insert(r) ==
  /\ pc[r] = "insert"
  /\ LET m   == availableMigrations[r][i[r] + 1]
         row == LedgerRow(m, success[r])
     IN  \E ok \in BOOLEAN :
           IF ~ok
           THEN /\ Settle(r, Err("InsertError", <<>>))
                /\ UNCHANGED <<ledger, runWrites, notified, events, i>>
           ELSE /\ ledger' = Insert(ledger, row)
                /\ runWrites' = [runWrites EXCEPT ![r] = Append(@, row)]
                /\ IF ~success[r]
                   THEN Settle(r, cachedError[r]) /\ UNCHANGED <<events, notified, i>>
                   ELSE /\ \E thrown \in BOOLEAN : EmitThen(r, "appliedMigration", thrown, "for")
                        /\ notified' = [notified EXCEPT ![r] = Append(@, appliedMigration(m))]
                        /\ i' = [i EXCEPT ![r] = @ + 1]
  /\ UNCHANGED <<dir, opts, appliedMigrations, availableMigrations, success, cachedError,
                 runExec, executed, prevResult, failedBefore, runs>>

\* one step of an invocation of runner r that is in progress
Running(r) ==
  \/ migrate_ensureKeyspace(r)
  \/ migrate_useKeyspace(r)
  \/ migrate_ensureMigrationTable(r)
  \/ migrate_getAppliedMigrations(r)
  \/ migrate_loadAvailableMigrations(r)
  \/ migrate_checkAppliedMigrations(r)
  \/ migrate_for(r)
  \/ executeMigration_execute(r)
  \/ executeMigration_insert(r)

\* runner r starts an invocation or takes a step of the one in progress
Step(r) == migrate(r) \/ Running(r)

\* a single runner (the engine's contract)
Next == Step(1)

Spec == Init /\ [][Next]_vars

(* ------------------------------------------------------------------ *)
(* One invocation against a ledger left by earlier history             *)
(* ------------------------------------------------------------------ *)

\* the rows a ledger may hold before the invocation: every combination of the
\* names and checksums of the units of versions 1 and 10, succeeded or failed
RowUniverse ==
  [version : {1, 10}, name : {<<"A">>, <<"C">>}, type : {"CQL"},
   checksum : {"h_a", "h_c"}, success : BOOLEAN]

\* the tables over RowUniverse: at most one row per version (the primary key)
InitialLedgers ==
  {t \in SUBSET RowUniverse : \A x, y \in t : x.version = y.version => x = y}

InitAny ==
  /\ dir \in Directories
  /\ ledger \in InitialLedgers
  /\ opts \in OptsSet
  /\ InitRun

\* the first invocation of runner 1 and its steps, and no second invocation
NextAny ==
  \/ runs = 0 /\ migrate(1)
  \/ Running(1)

SpecAny == InitAny /\ [][NextAny]_vars

(* ------------------------------------------------------------------ *)
(* The legacy exported function (src/index.js, first half): the same    *)
(* sequence without events, without the sort of the rows, without       *)
(* prettyName and without the guards on a missing match or definition   *)
(* ------------------------------------------------------------------ *)

\* the orders in which the cluster may return the rows of a SELECT without ORDER BY
RECURSIVE RowOrders(_)
RowOrders(rows) ==
  IF rows = {} THEN {<<>>}
  ELSE UNION {{<<x>> \o q : q \in RowOrders(rows \ {x})} : x \in rows}

\* loadMigration (legacy): match.index of a null match throws; the name is match[2]
loadMigration(filename, ioFails) ==
  LET mt == match(filename)
  IN  IF ~mt.matched THEN [kind |-> "throw", error |-> "TypeError: match is null"]
      ELSE IF ioFails THEN [kind |-> "throw", error |-> "LoadError"]
      ELSE LET o == [path |-> filename, version |-> parseInt(mt.g1), name |-> mt.g2]
           IN  [kind |-> "unit",
                unit |-> IF mt.g3 = <<"j", "s">> THEN JsMigration(o) ELSE CqlMigration(o)]

\* the loop of loadMigrations over files[k..], appending to acc
RECURSIVE LegacyLoadFrom(_, _, _, _)
LegacyLoadFrom(files, k, failAt, acc) ==
  IF k > Len(files) THEN [error |-> "none", migrations |-> acc]
  ELSE LET m == loadMigration(files[k], k = failAt)
       IN  IF m.kind = "throw" THEN [error |-> m.error, migrations |-> <<>>]
           ELSE LegacyLoadFrom(files, k + 1, failAt, Append(acc, m.unit))

\* loadMigrations(dir) (legacy)
loadMigrations(d, failAt) == LegacyLoadFrom(readdirSync(d), 1, failAt, <<>>)

\* the loop of checkAppliedMigrations (legacy) from index k: migrations[i] is read
\* without a test, and am.version !== m.version throws on an undefined m
RECURSIVE LegacyCheckFrom(_, _, _)
LegacyCheckFrom(applied, migrations, k) ==
  IF k > Len(applied) THEN "ok"
  ELSE IF k > Len(migrations) THEN "TypeError: m is undefined"
  ELSE IF applied[k].version # migrations[k].version THEN "VersionMismatch"
  ELSE IF applied[k].name # migrations[k].name THEN "NameMismatch"
  ELSE IF applied[k].checksum # migrations[k].checksum THEN "ChecksumMismatch"
  ELSE LegacyCheckFrom(applied, migrations, k + 1)

\* checkAppliedMigrations (legacy): "ok" when it returns, else the error it throws
legacy_checkAppliedMigrations(applied, migrations) ==
  IF Len(applied) = 0 THEN "ok"
  ELSE IF ~applied[Len(applied)].success THEN "HaltedHistory"
  ELSE LegacyCheckFrom(applied, migrations, 1)

\* the exported function is called
legacy(r) ==
  /\ pc[r] \in {"idle", "Done", "Halted"}
  /\ runs < MaxRuns
  /\ runs' = runs + 1
  /\ prevResult' = [prevResult EXCEPT ![r] = result[r]]
  /\ failedBefore' = (failedBefore \/ \E k \in 1..Len(runWrites[r]) : ~runWrites[r][k].success)
  /\ pc' = [pc EXCEPT ![r] = AfterKeyspace("start")]
  /\ result' = [result EXCEPT ![r] = Pending]
  /\ appliedMigrations' = [appliedMigrations EXCEPT ![r] = <<>>]
  /\ availableMigrations' = [availableMigrations EXCEPT ![r] = <<>>]
  /\ i' = [i EXCEPT ![r] = 0]
  /\ success' = [success EXCEPT ![r] = FALSE]
  /\ cachedError' = [cachedError EXCEPT ![r] = Pending]
  /\ events' = [events EXCEPT ![r] = <<>>]
  /\ runExec' = [runExec EXCEPT ![r] = <<>>]
  /\ runWrites' = [runWrites EXCEPT ![r] = <<>>]
  /\ notified' = [notified EXCEPT ![r] = <<>>]
  /\ UNCHANGED <<dir, ledger, opts, executed>>

\* await ensureKeyspace(...), await useKeyspace(...) or await ensureMigrationTable(...)
legacy_ensure(r) ==
  /\ pc[r] \in {"ensureKeyspace", "useKeyspace", "ensureMigrationTable"}
  /\ \E ok \in BOOLEAN :
       IF ok
       THEN /\ pc' = [pc EXCEPT ![r] = IF pc[r] = "ensureMigrationTable"
                                       THEN "getAppliedMigrations"
                                       ELSE AfterKeyspace(pc[r])]
            /\ UNCHANGED result
       ELSE Settle(r, Err("ClusterError", <<>>))
  /\ UNCHANGED <<dir, ledger, opts, appliedMigrations, availableMigrations, i, success,
                 cachedError, events, runExec, runWrites, notified, executed, prevResult,
                 failedBefore, runs>>

\* let appliedMigrations = await getAppliedMigrations(cassandraClient): .rows as returned
legacy_getAppliedMigrations(r) ==
  /\ pc[r] = "getAppliedMigrations"
  /\ \E ok \in BOOLEAN, rows \in RowOrders(ledger) :
       IF ok
       THEN /\ appliedMigrations' = [appliedMigrations EXCEPT ![r] = rows]
            /\ pc' = [pc EXCEPT ![r] = "loadAvailableMigrations"]
            /\ UNCHANGED result
       ELSE Settle(r, Err("ClusterError", <<>>)) /\ UNCHANGED appliedMigrations
  /\ UNCHANGED <<dir, ledger, opts, availableMigrations, i, success, cachedError, events,
                 runExec, runWrites, notified, executed, prevResult, failedBefore, runs>>

\* let migrations = await loadMigrations(opts.dir)
legacy_loadMigrations(r) ==
  /\ pc[r] = "loadAvailableMigrations"
  /\ \E failAt \in 0..Cardinality(dir) :
       LET loaded == loadMigrations(dir, failAt)
       IN  IF loaded.error = "none"
           THEN /\ availableMigrations' = [availableMigrations EXCEPT ![r] = loaded.migrations]
                /\ pc' = [pc EXCEPT ![r] = "checkAppliedMigrations"]
                /\ UNCHANGED result
           ELSE Settle(r, Err(loaded.error, <<>>)) /\ UNCHANGED availableMigrations
  /\ UNCHANGED <<dir, ledger, opts, appliedMigrations, i, success, cachedError, events,
                 runExec, runWrites, notified, executed, prevResult, failedBefore, runs>>

\* checkAppliedMigrations(appliedMigrations, migrations); let i = appliedMigrations.length
legacy_check(r) ==
  /\ pc[r] = "checkAppliedMigrations"
  /\ LET checked == legacy_checkAppliedMigrations(appliedMigrations[r], availableMigrations[r])
     IN  IF checked = "ok"
         THEN /\ pc' = [pc EXCEPT ![r] = "for"]
              /\ i' = [i EXCEPT ![r] = pendingStart(appliedMigrations[r])]
              /\ UNCHANGED result
         ELSE Settle(r, Err(checked, <<>>)) /\ UNCHANGED i
  /\ UNCHANGED <<dir, ledger, opts, appliedMigrations, availableMigrations, success,
                 cachedError, events, runExec, runWrites, notified, executed, prevResult,
                 failedBefore, runs>>

\* executeMigration (legacy): the INSERT resolves or rejects; if (!success) throw
\* cachedError; back in the loop, ++i
legacy_insert(r) ==
  /\ pc[r] = "insert"
  /\ LET m   == availableMigrations[r][i[r] + 1]
         row == LedgerRow(m, success[r])
     IN  \E ok \in BOOLEAN :
           IF ~ok
           THEN /\ Settle(r, Err("InsertError", <<>>))
                /\ UNCHANGED <<ledger, runWrites, i>>
           ELSE /\ ledger' = Insert(ledger, row)
                /\ runWrites' = [runWrites EXCEPT ![r] = Append(@, row)]
                /\ IF ~success[r]
                   THEN Settle(r, cachedError[r]) /\ UNCHANGED i
                   ELSE /\ pc' = [pc EXCEPT ![r] = "for"]
                        /\ i' = [i EXCEPT ![r] = @ + 1]
                        /\ UNCHANGED result
  /\ UNCHANGED <<dir, opts, appliedMigrations, availableMigrations, success, cachedError,
                 events, runExec, notified, executed, prevResult, failedBefore, runs>>

\* one step of an invocation of the legacy function that is in progress; the loop
\* condition and the await of execute are those of Shift
LegacyRunning(r) ==
  \/ legacy_ensure(r)
  \/ legacy_getAppliedMigrations(r)
  \/ legacy_loadMigrations(r)
  \/ legacy_check(r)
  \/ migrate_for(r)
  \/ executeMigration_execute(r)
  \/ legacy_insert(r)

\* the first invocation of the legacy function and its steps
NextLegacy ==
  \/ runs = 0 /\ legacy(1)
  \/ LegacyRunning(1)

SpecLegacy == InitAny /\ [][NextLegacy]_vars

(* ------------------------------------------------------------------ *)
(* Vocabulary of the properties                                        *)
(* ------------------------------------------------------------------ *)

Range(q) == {q[k] : k \in 1..Len(q)}

\* the errors checkAppliedMigrations throws
ReconcileErrors == {"HaltedHistory", "VersionMismatch", "NameMismatch", "ChecksumMismatch"}

\* the rejections that come from the cluster, the file system or a listener
\* rather than from the engine's own decisions
EnvironmentErrors ==
  {"ClusterError", "LoadError", "ListenerError", "InsertError",
   "TypeError: spaced[0] is undefined", "TypeError: match is null"}

\* checkAppliedMigrations returned in this invocation of r
Reconciled(r) == "checkedAppliedMigrations" \in Range(events[r])

\* checkAppliedMigrations threw in this invocation of r
ReconcileFailed(r) == pc[r] = "Halted" /\ result[r].kind \in ReconcileErrors

\* this invocation of r has run checkAppliedMigrations
CheckDone(r) == Reconciled(r) \/ ReconcileFailed(r)

\* this invocation of r is over
Finished(r) == pc[r] \in {"Done", "Halted"}

\* record and unit agree in version, name and checksum
SameIdentity(am, m) ==
  am.version = m.version /\ am.name = m.name /\ am.checksum = m.checksum

\* H is a succeeded history that matches D[0..len(H)-1] position by position
MatchingPrefix(H, D) ==
  /\ Len(H) <= Len(D)
  /\ Len(H) > 0 => H[Len(H)].success
  /\ \A k \in 1..Len(H) : SameIdentity(H[k], D[k])

\* the number of units of this invocation whose execute and INSERT are both over
UnitsDone(r) == Len(runExec[r]) - (IF pc[r] = "insert" THEN 1 ELSE 0)

(* ------------------------------------------------------------------ *)
(* C1                                                                  *)
(* ------------------------------------------------------------------ *)

\* C1: across the invocations of a single runner over an unchanged directory, no
\* unit's execute is invoked a second time: a step that awaits a unit's execute is
\* taken only for a unit that was never executed before.
C1_ExecuteAtMostOnce ==
  [][pc[1] = "execute" /\ pc'[1] = "insert"
       => availableMigrations[1][i[1] + 1].path \notin executed]_vars

(* ------------------------------------------------------------------ *)
(* C2                                                                  *)
(* ------------------------------------------------------------------ *)

\* C2 as stated: when the applied history H ends in a succeeded record and matches
\* D[0..len(H)-1] in version, name and checksum, checkAppliedMigrations raises no
\* error and exactly the units D[len(H)..] are executed by the run (checked on the
\* runs that neither the cluster, the file system nor a listener rejects).
C2_ExactlyPendingAttempted ==
  LET H == appliedMigrations[1]
      D == availableMigrations[1]
  IN  (/\ Finished(1) /\ CheckDone(1)
       /\ MatchingPrefix(H, D)
       /\ result[1].kind \notin EnvironmentErrors) =>
        /\ result[1].kind \notin ReconcileErrors
        /\ runExec[1] = SubSeq(D, Len(H) + 1, Len(D))

\* C2 amended: when the applied history H ends in a succeeded record and matches
\* D[0..len(H)-1] in version, name and checksum, checkAppliedMigrations raises no
\* error, the loop index starts at len(H), the units executed are D[len(H)],
\* D[len(H)+1], ... in that order up to the first one that stops the run, none of
\* D[0..len(H)-1] is, and a run that resolves has executed exactly D[len(H)..].
C2_MatchingPrefixPending ==
  LET H == appliedMigrations[1]
      D == availableMigrations[1]
  IN  MatchingPrefix(H, D) =>
        /\ result[1].kind \notin ReconcileErrors
        /\ pc[1] \in {"for", "execute", "insert"} => i[1] = Len(H) + UnitsDone(1)
        /\ runExec[1] = SubSeq(D, Len(H) + 1, Len(H) + Len(runExec[1]))
        /\ pc[1] = "Done" => runExec[1] = SubSeq(D, Len(H) + 1, Len(D))

\* C2 witness: a run over a non-empty matching history resolved after executing
\* the one or more units behind it
C2_Witness ==
  /\ pc[1] = "Done"
  /\ Len(appliedMigrations[1]) > 0
  /\ MatchingPrefix(appliedMigrations[1], availableMigrations[1])
  /\ Len(runExec[1]) > 0
  /\ Len(appliedMigrations[1]) + Len(runExec[1]) = Len(availableMigrations[1])

(* ------------------------------------------------------------------ *)
(* C3                                                                  *)
(* ------------------------------------------------------------------ *)

\* some index holds a record and a unit whose checksums differ
ChecksumDiffers(H, D) ==
  \E k \in 1..Len(H) : k <= Len(D) /\ H[k].checksum # D[k].checksum

\* the lowest such index
FirstChecksumDiff(H, D) ==
  CHOOSE k \in 1..Len(H) :
    /\ k <= Len(D) /\ H[k].checksum # D[k].checksum
    /\ \A j \in 1..(k - 1) : j <= Len(D) => H[j].checksum = D[j].checksum

\* C3 as stated: whenever some index has H[i].checksum # D[i].checksum, the
\* reconciliation fails with the checksum-mismatch error, no unit is executed and no
\* ledger record is written.
C3_AlwaysChecksumError ==
  LET H == appliedMigrations[1]
      D == availableMigrations[1]
  IN  (CheckDone(1) /\ ChecksumDiffers(H, D)) =>
        /\ pc[1] = "Halted" /\ result[1].kind = "ChecksumMismatch"
        /\ runExec[1] = <<>> /\ runWrites[1] = <<>>

\* C3 amended: whenever some index has H[i].checksum # D[i].checksum, the
\* reconciliation fails with one of its four errors, no unit is executed and no
\* ledger record is written; the error is the checksum mismatch when the last
\* record succeeded and, up to the lowest index whose checksums differ, every
\* record has the version and the name of its unit.
C3_ChecksumDriftRejected ==
  LET H == appliedMigrations[1]
      D == availableMigrations[1]
  IN  (CheckDone(1) /\ ChecksumDiffers(H, D)) =>
        /\ pc[1] = "Halted" /\ result[1].kind \in ReconcileErrors
        /\ runExec[1] = <<>> /\ runWrites[1] = <<>>
        /\ (/\ H[Len(H)].success
            /\ \A j \in 1..FirstChecksumDiff(H, D) :
                 H[j].version = D[j].version /\ H[j].name = D[j].name)
           => result[1].kind = "ChecksumMismatch"

\* C3 witness: a run rejected with the checksum mismatch at the second record
C3_Witness ==
  /\ pc[1] = "Halted" /\ result[1].kind = "ChecksumMismatch"
  /\ Len(appliedMigrations[1]) = 2 /\ Len(availableMigrations[1]) = 3
  /\ FirstChecksumDiff(appliedMigrations[1], availableMigrations[1]) = 2

(* ------------------------------------------------------------------ *)
(* C4                                                                  *)
(* ------------------------------------------------------------------ *)

\* C4: the applied history is in ascending version order, and when its last record
\* has success=false the reconciliation fails with the halted-history error whatever
\* the other records and the definitions are, no unit is executed and no ledger
\* record is written.
C4_FailedLastRecordHalts ==
  LET H == appliedMigrations[1]
  IN  /\ \A k \in 1..(Len(H) - 1) : H[k].version < H[k + 1].version
      /\ (CheckDone(1) /\ Len(H) > 0 /\ ~H[Len(H)].success) =>
           /\ pc[1] = "Halted" /\ result[1].kind = "HaltedHistory"
           /\ runExec[1] = <<>> /\ runWrites[1] = <<>>

\* C4 witness: a run halted on a failed last record although an earlier record
\* differs from its unit in version and units are pending
C4_Witness ==
  LET H == appliedMigrations[1]
      D == availableMigrations[1]
  IN  /\ pc[1] = "Halted" /\ result[1].kind = "HaltedHistory"
      /\ Len(H) = 2 /\ Len(D) = 3
      /\ H[1].version # D[1].version
      /\ H[1].success

(* ------------------------------------------------------------------ *)
(* C5                                                                  *)
(* ------------------------------------------------------------------ *)

\* the last execute of this invocation of r failed
ExecuteFailed(r) == Len(runExec[r]) > 0 /\ ~success[r]

\* the pending units of the invocation of r are executed from the first on, in order
ExecutedInPendingOrder(r) ==
  runExec[r] = SubSeq(availableMigrations[r], Len(appliedMigrations[r]) + 1,
                      Len(appliedMigrations[r]) + Len(runExec[r]))

\* the first n records written by r are those of its first n executed units, all
\* succeeded but the one at position failedAt
WrittenFor(r, n, failedAt) ==
  /\ Len(runWrites[r]) = n
  /\ \A j \in 1..n :
       /\ runWrites[r][j].version = runExec[r][j].version
       /\ runWrites[r][j].name = runExec[r][j].name
       /\ runWrites[r][j].type = runExec[r][j].type
       /\ runWrites[r][j].checksum = runExec[r][j].checksum
       /\ runWrites[r][j].success = (j # failedAt)

\* C5 as stated: in a run whose k-th pending unit is the first whose execute fails,
\* exactly k records are written, for p1..pk in order, succeeded for p1..p(k-1) and
\* failed for pk; no later unit is executed; the run's result is pk's execute error.
C5_FailStopAlwaysRecorded ==
  LET k == Len(runExec[1])
  IN  (Finished(1) /\ ExecuteFailed(1)) =>
        /\ pc[1] = "Halted"
        /\ ExecutedInPendingOrder(1)
        /\ WrittenFor(1, k, k)
        /\ result[1] = Err("ExecutionError", runExec[1][k].path)

\* C5 amended: the same, provided the INSERT of pk's record succeeds; when that
\* INSERT fails, k-1 records are written, all succeeded, no later unit is executed
\* and the run's result is the INSERT's error.
C5_FailStopRecorded ==
  LET k == Len(runExec[1])
  IN  (Finished(1) /\ ExecuteFailed(1)) =>
        /\ pc[1] = "Halted"
        /\ ExecutedInPendingOrder(1)
        /\ IF result[1].kind = "InsertError"
           THEN WrittenFor(1, k - 1, k)
           ELSE /\ WrittenFor(1, k, k)
                /\ result[1] = Err("ExecutionError", runExec[1][k].path)

\* C5 witness: three pending units, the second failed and its record is written
C5_Witness ==
  /\ pc[1] = "Halted" /\ ExecuteFailed(1)
  /\ appliedMigrations[1] = <<>> /\ Len(availableMigrations[1]) = 3
  /\ Len(runExec[1]) = 2 /\ Len(runWrites[1]) = 2
  /\ result[1].kind = "ExecutionError"

(* ------------------------------------------------------------------ *)
(* C6                                                                  *)
(* ------------------------------------------------------------------ *)

\* C6: a run that follows a resolved run over the same directory, and is itself not
\* rejected by the cluster, the file system or a listener, resolves, executes no
\* unit and writes no ledger record.
C6_SecondRunIdle ==
  (Finished(1) /\ prevResult[1].kind = "ok" /\ result[1].kind \notin EnvironmentErrors) =>
     /\ pc[1] = "Done"
     /\ runExec[1] = <<>> /\ runWrites[1] = <<>>

(* ------------------------------------------------------------------ *)
(* C7                                                                  *)
(* ------------------------------------------------------------------ *)

\* C7: once an invocation has recorded a failed execute (a success=false row), no
\* later invocation executes a unit or writes a ledger record.
C7_FailureBlocksLaterRuns ==
  failedBefore => runExec[1] = <<>> /\ runWrites[1] = <<>>

(* ------------------------------------------------------------------ *)
(* C8                                                                  *)
(* ------------------------------------------------------------------ *)

\* C8: availableMigrations is in ascending version order and of two units executed
\* in the same run, the one executed first has the smaller version.
C8_AscendingVersionOrder ==
  /\ \A a, b \in 1..Len(availableMigrations[1]) :
       a < b => availableMigrations[1][a].version < availableMigrations[1][b].version
  /\ \A a, b \in 1..Len(runExec[1]) :
       a < b => runExec[1][a].version < runExec[1][b].version

(* ------------------------------------------------------------------ *)
(* C9                                                                  *)
(* ------------------------------------------------------------------ *)

\* C9: the ledger holds at most one record per version, and a record is written
\* for a version only when the ledger holds no record of that version.
C9_NoRecordReplaced ==
  [][/\ \A x, y \in ledger' : x.version = y.version => x = y
     /\ runWrites'[1] # runWrites[1] /\ runWrites'[1] # <<>>
          => \A x \in ledger : x.version # runWrites'[1][Len(runWrites'[1])].version]_vars

(* ------------------------------------------------------------------ *)
(* C10                                                                 *)
(* ------------------------------------------------------------------ *)

\* the history is longer than the definitions, ends in a succeeded record, and every
\* record that has a definition matches it
LongerMatchingHistory(H, D) ==
  /\ Len(H) > Len(D)
  /\ H[Len(H)].success
  /\ \A k \in 1..Len(D) : SameIdentity(H[k], D[k])

\* C10: with more applied records than definitions, a succeeded last record and
\* every defined index matching, the reconciliation does not raise and the run
\* resolves with no unit executed and no ledger record written.  Checked on the
\* legacy function under SpecLegacy and on Shift under SpecAny.
C10_LongerHistoryTolerated ==
  (/\ Finished(1)
   /\ LongerMatchingHistory(appliedMigrations[1], availableMigrations[1])
   /\ result[1].kind \notin EnvironmentErrors) =>
     /\ pc[1] = "Done"
     /\ runExec[1] = <<>> /\ runWrites[1] = <<>>

(* ------------------------------------------------------------------ *)
(* C11                                                                 *)
(* ------------------------------------------------------------------ *)

\* the await a run with no listener attached is at after it has emitted ev
AwaitAfterEvent(ev) ==
  CASE ev = "ensuredKeyspace" ->
         IF opts.useKeyspace THEN "useKeyspace" ELSE "ensureMigrationTable"
    [] ev = "usedKeyspace" -> "ensureMigrationTable"
    [] ev = "ensuredMigrationTable" -> "getAppliedMigrations"
    [] OTHER -> "for"

\* C11: notifications never affect control flow: whatever listeners are attached, a
\* step that emits an event leaves the invocation where the run with no listener
\* leaves it, at the next await and not settled.
C11_ListenersNeverAffectControl ==
  [][(events'[1] # events[1] /\ events'[1] # <<>>) =>
       /\ pc'[1] = AwaitAfterEvent(events'[1][Len(events'[1])])
       /\ result'[1] = result[1]]_vars

(* ------------------------------------------------------------------ *)
(* C12                                                                 *)
(* ------------------------------------------------------------------ *)

\* the invocation of r entered its execution phase: the reconciliation returned
\* and its event was delivered
ExecutionPhase(r) ==
  /\ Reconciled(r)
  /\ ~(pc[r] = "Halted" /\ Len(runExec[r]) = 0 /\ result[r].kind = "ListenerError")

\* C12: when the pending start index is at or beyond len(availableMigrations), the
\* execution phase is a no-op: the loop index is len(appliedMigrations), no execute
\* is awaited, no ledger record is written, no event follows the reconciliation's,
\* and the run, once over, has resolved.
C12_EmptyPendingNoOp ==
  LET H == appliedMigrations[1]
      D == availableMigrations[1]
  IN  (ExecutionPhase(1) /\ Len(H) >= Len(D)) =>
        /\ pc[1] \in {"for", "Done"}
        /\ i[1] = Len(H)
        /\ runExec[1] = <<>> /\ runWrites[1] = <<>>
        /\ events[1][Len(events[1])] = "checkedAppliedMigrations"
        /\ Finished(1) => (pc[1] = "Done" /\ result[1] = Resolved)

\* C12 witness: a run over more applied records than definitions, and at least one
\* definition, has resolved
C12_Witness ==
  /\ pc[1] = "Done"
  /\ Len(availableMigrations[1]) >= 1
  /\ Len(appliedMigrations[1]) > Len(availableMigrations[1])

(* ------------------------------------------------------------------ *)
(* C13                                                                 *)
(* ------------------------------------------------------------------ *)

\* the awaits of an invocation before its loop, in order, under the flags of opts
StepSequence ==
  SelectSeq(<<"ensureKeyspace", "useKeyspace", "ensureMigrationTable",
              "getAppliedMigrations", "loadAvailableMigrations",
              "checkAppliedMigrations", "for">>,
            LAMBDA st : /\ st = "ensureKeyspace" => opts.ensureKeyspace
                        /\ st = "useKeyspace" => opts.useKeyspace)

\* the position of an await in StepSequence
StepIndex(st) == CHOOSE k \in 1..Len(StepSequence) : StepSequence[k] = st

\* the awaits that may follow the await p of the same invocation, and how it may end
StepsAfter(p) ==
  CASE p = "for"     -> {"execute", "Done"}
    [] p = "execute" -> {"insert"}
    [] p = "insert"  -> {"for", "Halted"}
    [] OTHER         -> {StepSequence[StepIndex(p) + 1], "Halted"}

\* C13: an invocation takes its steps in the order ensure keyspace (if
\* opts.ensureKeyspace), select keyspace (if opts.useKeyspace), ensure ledger table,
\* read ledger, load definitions, reconcile, execute pending, done; no execute and
\* no INSERT comes before the table was ensured and the reconciliation succeeded in
\* the same invocation; after Done or Halted nothing happens but a new invocation.
C13_StepOrder ==
  /\ [](/\ pc[1] \in Range(StepSequence) \cup {"execute", "insert", "idle", "Done", "Halted"}
        /\ (pc[1] \in {"execute", "insert"} \/ runExec[1] # <<>> \/ runWrites[1] # <<>>)
             => \E a, b \in 1..Len(events[1]) :
                  /\ a < b
                  /\ events[1][a] = "ensuredMigrationTable"
                  /\ events[1][b] = "checkedAppliedMigrations")
  /\ [][IF pc[1] \in {"idle", "Done", "Halted"}
        THEN \/ UNCHANGED <<pc, ledger, runExec, runWrites, events, result, executed>>
             \/ /\ runs' = runs + 1
                /\ pc'[1] = StepSequence[1]
                /\ runExec'[1] = <<>> /\ runWrites'[1] = <<>>
                /\ UNCHANGED <<ledger, executed>>
        ELSE pc'[1] = pc[1] \/ pc'[1] \in StepsAfter(pc[1])]_vars

\* C13 witness: with both keyspace flags set, an invocation awaits the execute of a
\* unit after every step before it
C13_Witness ==
  /\ pc[1] = "execute"
  /\ events[1] = <<"ensuredKeyspace", "usedKeyspace", "ensuredMigrationTable",
                   "checkedAppliedMigrations">>

(* ------------------------------------------------------------------ *)
(* C14                                                                 *)
(* ------------------------------------------------------------------ *)

\* the awaits of migrate before its execution phase
StepsBeforeExecution ==
  {"ensureKeyspace", "useKeyspace", "ensureMigrationTable", "getAppliedMigrations",
   "loadAvailableMigrations", "checkAppliedMigrations"}

\* the errors the step st fails with (a listener of its event may throw as well, C11)
ErrorsOf(st) ==
  CASE st = "loadAvailableMigrations" -> {"LoadError", "TypeError: spaced[0] is undefined"}
    [] st = "checkAppliedMigrations"  -> ReconcileErrors \cup {"ListenerError"}
    [] st = "getAppliedMigrations"    -> {"ClusterError"}
    [] OTHER                          -> {"ClusterError", "ListenerError"}

\* C14: a failure of a step before the execution phase ends migrate with that step's
\* error, with no unit executed and the ledger as it was before the invocation; the
\* whole directory is loaded before the first execute, so the failing load of a
\* later file keeps every earlier file from being executed.
C14_EarlyFailureChangesNothing ==
  /\ [](/\ (pc[1] \in StepsBeforeExecution)
             => (runExec[1] = <<>> /\ runWrites[1] = <<>>)
        /\ (pc[1] = "Halted" /\ result[1].kind \in {"LoadError", "ClusterError"} \cup ReconcileErrors)
             => (runExec[1] = <<>> /\ runWrites[1] = <<>>)
        /\ (pc[1] \in {"execute", "insert"})
             => availableMigrations[1] = loadAvailableMigrations(dir, 0).migrations)
  /\ [][(pc[1] \in StepsBeforeExecution) =>
          /\ ledger' = ledger /\ executed' = executed
          /\ runExec'[1] = <<>> /\ runWrites'[1] = <<>>
          /\ pc'[1] = "Halted" => result'[1].kind \in ErrorsOf(pc[1])]_vars

\* C14 witness: migrate was rejected with the load error of one file of a directory
\* of two or more pending definitions, none of which was executed
C14_Witness ==
  /\ pc[1] = "Halted" /\ result[1].kind = "LoadError"
  /\ ledger = {} /\ executed = {}
  /\ Len(loadAvailableMigrations(dir, 0).migrations) >= 2

(* ------------------------------------------------------------------ *)
(* C15                                                                 *)
(* ------------------------------------------------------------------ *)

\* row carries the version, name, type and checksum of the unit m
RecordOf(row, m) ==
  /\ row.version = m.version /\ row.name = m.name
  /\ row.type = m.type /\ row.checksum = m.checksum

\* C15: the INSERT of an attempted unit is issued after its execute has returned or
\* thrown, and is over before the next execute starts and before the execution
\* error is rethrown; the record has the unit's version, name, type and checksum and
\* the outcome of its execute as success; so a run rejected with a unit's execution
\* error has left a success=false record of that unit in the ledger.
C15_InsertFollowsExecute ==
  /\ [](/\ Len(runWrites[1]) <= Len(runExec[1])
        /\ Len(runExec[1]) <= Len(runWrites[1]) + 1
        /\ pc[1] \in {"for", "execute"} => Len(runWrites[1]) = Len(runExec[1])
        /\ pc[1] = "insert" => Len(runExec[1]) = Len(runWrites[1]) + 1
        /\ \A k \in 1..Len(runWrites[1]) : RecordOf(runWrites[1][k], runExec[1][k])
        /\ (pc[1] = "Halted" /\ result[1].kind = "ExecutionError") =>
             /\ Len(runWrites[1]) = Len(runExec[1])
             /\ result[1].unit = runExec[1][Len(runExec[1])].path
             /\ \E row \in ledger :
                  ~row.success /\ RecordOf(row, runExec[1][Len(runExec[1])]))
  /\ [][runWrites'[1] # runWrites[1] /\ runWrites'[1] # <<>> =>
          LET row == runWrites'[1][Len(runWrites'[1])]
          IN  /\ pc[1] = "insert"
              /\ runWrites'[1] = Append(runWrites[1], row)
              /\ row.success = success[1]
              /\ row \in ledger'
              /\ (pc'[1] = "Halted" /\ result'[1].kind = "ExecutionError") <=> ~success[1]]_vars

\* C15 witness: a run was rejected with the execution error of its second unit
C15_Witness ==
  /\ pc[1] = "Halted" /\ result[1].kind = "ExecutionError"
  /\ Len(runExec[1]) = 2
  /\ runWrites[1][1].success /\ ~runWrites[1][2].success

(* ------------------------------------------------------------------ *)
(* C16                                                                 *)
(* ------------------------------------------------------------------ *)

\* the number of appliedMigration events among the first n events of runner r
RECURSIVE AppliedEvents(_, _)
AppliedEvents(r, n) ==
  IF n = 0 THEN 0
  ELSE AppliedEvents(r, n - 1) + (IF events[r][n] = "appliedMigration" THEN 1 ELSE 0)

\* C16: appliedMigration is emitted once for each unit whose execute succeeded and
\* whose record was written, with that unit's version, name and type, in execution
\* order, after the record is written and before the next execute starts; a unit
\* whose execute or INSERT failed, and every unit after it, gets no event.
C16_AppliedMigrationEvents ==
  /\ [](/\ AppliedEvents(1, Len(events[1])) = Len(notified[1])
        /\ Len(notified[1]) <= Len(runWrites[1])
        /\ \A k \in 1..Len(runWrites[1]) : runWrites[1][k].success <=> k <= Len(notified[1])
        /\ \A k \in 1..Len(notified[1]) :
             /\ notified[1][k].version = runExec[1][k].version
             /\ notified[1][k].name = runExec[1][k].name
             /\ notified[1][k].type = runExec[1][k].type
             /\ DOMAIN notified[1][k] = {"version", "name", "type"}
        /\ pc[1] = "execute" => Len(notified[1]) = Len(runExec[1])
        /\ pc[1] = "insert" => Len(notified[1]) = Len(runExec[1]) - 1
        /\ pc[1] = "Halted" => Len(notified[1]) \in {Len(runExec[1]) - 1, Len(runExec[1])})
  /\ [][notified'[1] # notified[1] /\ notified'[1] # <<>> =>
          /\ pc[1] = "insert" /\ success[1]
          /\ Len(notified'[1]) = Len(notified[1]) + 1
          /\ Len(runWrites'[1]) = Len(runWrites[1]) + 1
          /\ events'[1] = Append(events[1], "appliedMigration")]_vars

\* C16 witness: the first unit of a run was notified, the second failed in execute
\* and ended the run with one event
C16_Witness ==
  /\ pc[1] = "Halted" /\ result[1].kind = "ExecutionError"
  /\ Len(runExec[1]) = 2 /\ Len(runWrites[1]) = 2
  /\ Len(notified[1]) = 1

(* ------------------------------------------------------------------ *)
(* C17                                                                 *)
(* ------------------------------------------------------------------ *)

\* the indexes at which a record and the unit at its position differ
DifferingIndexes(H, D) ==
  {k \in 1..Len(H) : k <= Len(D) /\ ~SameIdentity(H[k], D[k])}

\* the lowest of them
LowestDifference(H, D) ==
  CHOOSE k \in DifferingIndexes(H, D) : \A j \in DifferingIndexes(H, D) : k <= j

\* C17: when the last applied record succeeded and some record differs from the
\* unit at its index, checkAppliedMigrations throws the error of the lowest such
\* index and, there, of the first differing field in the order version, name,
\* checksum.
C17_FirstDifferenceDecides ==
  LET H == appliedMigrations[1]
      D == availableMigrations[1]
  IN  (CheckDone(1) /\ DifferingIndexes(H, D) # {} /\ H[Len(H)].success) =>
        LET k == LowestDifference(H, D)
        IN  /\ pc[1] = "Halted"
            /\ result[1].kind =
                 IF H[k].version # D[k].version THEN "VersionMismatch"
                 ELSE IF H[k].name # D[k].name THEN "NameMismatch"
                 ELSE "ChecksumMismatch"

\* C17 witness: the first record matches, the second differs in name and checksum
\* and not in version, and the run was rejected with the name mismatch
C17_Witness ==
  LET H == appliedMigrations[1]
      D == availableMigrations[1]
  IN  /\ pc[1] = "Halted" /\ result[1].kind = "NameMismatch"
      /\ Len(H) = 2 /\ Len(D) >= 2
      /\ SameIdentity(H[1], D[1])
      /\ H[2].version = D[2].version
      /\ H[2].name # D[2].name /\ H[2].checksum # D[2].checksum

(* ------------------------------------------------------------------ *)
(* C18                                                                 *)
(* ------------------------------------------------------------------ *)

\* C18: at every point of the runs of a single runner over an unchanged directory,
\* from an empty ledger, the ledger read in ascending version order matches the
\* loaded definitions position by position: record k has the version, name and
\* checksum of availableMigrations[k], for every k up to the number of records.
C18_HistoryIsOrderedPrefix ==
  LET H == getAppliedMigrations(ledger)
      D == loadAvailableMigrations(dir, 0).migrations
  IN  \A k \in 1..Len(H) : k <= Len(D) /\ SameIdentity(H[k], D[k])

(* ------------------------------------------------------------------ *)
(* C19: two runners against one ledger table                           *)
(* ------------------------------------------------------------------ *)

\* two Shift instances over the same directory, connected to the same cluster, each
\* calling migrate() once; their awaits interleave in any order
NextTwo ==
  \/ \E r \in Runners : pc[r] = "idle" /\ migrate(r)
  \/ \E r \in Runners : Running(r)

SpecTwo == Init /\ [][NextTwo]_vars

\* C19: nothing in the engine keeps two interleaved runners apart: each runner
\* attempts the units pending in its own read of the ledger, whatever the other
\* has executed or written since, so two runners that both read the ledger before
\* either wrote and both resolved have executed the same units and each has written
\* a record for every one of them.
C19_NoMutualExclusion ==
  /\ \A r \in Runners :
       /\ Len(appliedMigrations[r]) + Len(runExec[r]) <= Len(availableMigrations[r])
            \/ runExec[r] = <<>>
       /\ \A k \in 1..Len(runExec[r]) :
            runExec[r][k] = availableMigrations[r][Len(appliedMigrations[r]) + k]
  /\ (/\ pc[1] = "Done" /\ pc[2] = "Done"
      /\ appliedMigrations[1] = <<>> /\ appliedMigrations[2] = <<>>)
       => /\ runExec[1] = availableMigrations[1]
          /\ runExec[2] = runExec[1]
          /\ \A r \in Runners :
               /\ Len(runWrites[r]) = Len(runExec[r])
               /\ \A k \in 1..Len(runExec[r]) : RecordOf(runWrites[r][k], runExec[r][k])

\* C19 witness: both runners read the empty ledger, both executed the same pending
\* unit and both wrote a record of its version
C19_Witness ==
  /\ appliedMigrations[1] = <<>> /\ appliedMigrations[2] = <<>>
  /\ \E j \in 1..Len(runWrites[1]) : \E k \in 1..Len(runWrites[2]) :
       /\ runExec[1][j].path = runExec[2][k].path
       /\ runWrites[1][j].version = runWrites[2][k].version
       /\ RecordOf(runWrites[1][j], runExec[1][j])
       /\ RecordOf(runWrites[2][k], runExec[2][k])

(* ------------------------------------------------------------------ *)
(* C20: termination                                                    *)
(* ------------------------------------------------------------------ *)

\* the steps of an invocation of r that wait for the cluster or for a unit's execute
AwaitedCallSettles(r) ==
  \/ migrate_ensureKeyspace(r)
  \/ migrate_useKeyspace(r)
  \/ migrate_ensureMigrationTable(r)
  \/ migrate_getAppliedMigrations(r)
  \/ migrate_checkAppliedMigrations(r)
  \/ migrate_for(r)
  \/ executeMigration_execute(r)
  \/ executeMigration_insert(r)

\* Spec with every await of an invocation in progress eventually settling: the
\* cluster call or the execute it waits for returns or raises, and the event loop
\* then runs the continuation; the load of the directory, a loop over synchronous
\* reads that is enabled whenever the invocation is at it, does not last forever.
\* No fairness on migrate: the caller need not call again
SpecLive ==
  /\ Init /\ [][Next]_vars
  /\ WF_vars(AwaitedCallSettles(1))
  /\ []<>(pc[1] # "loadAvailableMigrations")

\* C20: every invocation ends in Done or Halted, given that every awaited call
\* returns or raises; its loop awaits execute at most
\* max(0, len(availableMigrations) - len(appliedMigrations)) times, each time for
\* the next position of availableMigrations, never for one it has attempted.
C20_Terminates ==
  /\ [](/\ runExec[1] # <<>> =>
             Len(runExec[1]) <= Len(availableMigrations[1]) - Len(appliedMigrations[1])
        /\ \A k \in 1..Len(runExec[1]) :
             runExec[1][k] = availableMigrations[1][Len(appliedMigrations[1]) + k]
        /\ pc[1] \in {"for", "execute", "insert"} =>
             i[1] = Len(appliedMigrations[1]) + UnitsDone(1))
  /\ (pc[1] \notin {"idle", "Done", "Halted"}) ~> Finished(1)

\* C20 witness: an invocation over a history of one record or more has executed
\* every pending unit once and resolved
C20_Witness ==
  /\ pc[1] = "Done"
  /\ Len(appliedMigrations[1]) >= 1
  /\ Len(runExec[1]) >= 1
  /\ Len(runExec[1]) = Len(availableMigrations[1]) - Len(appliedMigrations[1])

====
